---- MODULE Spec2Model ----
(***************************************************************************)
(* Session lifecycle and resource ownership of the sherpa-rs recognizers  *)
(* ParaformerRecognizer (batch), OnlineTransducerRecognizer and            *)
(* ZipFormerOnline (streaming) over the sherpa-onnx C engine.              *)
(*                                                                         *)
(* The engine is an opaque foreign library: it is modelled as a record    *)
(* `engine` holding the handles it has given out and, per stream, the      *)
(* buffered samples and decodable units.  Every sherpa_rs_sys call is an   *)
(* operator from engine record to engine record that appends itself to     *)
(* engine.calls (the calls of the public operation in progress) and leaves *)
(* its return value in engine.ret.  A public method of the Rust layer is   *)
(* one action that composes these calls exactly as its body does.          *)
(***************************************************************************)
EXTENDS Integers, Sequences, FiniteSets, TLC

\* ------------------------------------------------------------------ bounds
\* Stream handles the engine can give out in one run.
MaxStreams == 2
\* Largest sample buffer handed to accept_waveform / transcribe in one call.
MaxSamples == 3
\* Decodable units (pending + decoded) one stream may accumulate per utterance.
MaxUnits == 1
\* destroy_stream calls the caller may make on one stream pointer.
MaxDestroys == 2
\* Samples the engine needs for one decodable unit (model-specific granularity).
ChunkSamples == 2
\* The most sub-chunks a sample sequence is split into.
MaxChunks == 3
\* The threads that share one recognizer.
NumThreads == 2
\* The largest multiple of 2^31 in a sample buffer's length.
MaxHi == 2

\* ------------------------------------------------------------- handles
Null == 0
RecH == 1
ResH == 1
StreamIds == 1..MaxStreams
SampleLens == 0..MaxSamples

\* String::new() and the text of a result holding n decoded units.
EmptyString == <<>>
Text(n) == [i \in 1..n |-> "w"]

\* i32::MAX.
I32Max == 2147483647

\* A usize buffer length hi * 2^31 + lo, with lo in 0..I32Max.
Usize(hi, lo) == [hi |-> hi, lo |-> lo]

\* `x as i32` for a usize x: the low 32 bits, read as two's complement.
AsI32(x) == IF x.hi % 2 = 0 THEN x.lo ELSE (x.lo - I32Max) - 1

\* x.try_into() for i32: the value when it is at most i32::MAX.
TryIntoI32(x) == IF x.hi = 0 THEN <<x.lo>> ELSE <<>>

\* ------------------------------------------------------------ the engine
FreshStream ==
    [st |-> "none", buf |-> 0, ready |-> 0, finished |-> FALSE,
     decoded |-> 0, destroys |-> 0]

EngineInit(fragile) ==
    [rec |-> "none",
     streams |-> [s \in StreamIds |-> FreshStream],
     results |-> 0,
     nCreateRec |-> 0,
     nDestroyRec |-> 0,
     faults |-> {},
     fragile |-> fragile,
     aborted |-> FALSE,
     calls |-> <<>>,
     ret |-> Null]

\* One entry of engine.calls: the function, the handle and count it was given,
\* and what it returned.
Call(fn, h, n, r) == [fn |-> fn, h |-> h, n |-> n, r |-> r]

\* A public operation starts with an empty record of calls and faults.
Begin(e) == [e EXCEPT !.calls = <<>>, !.faults = {}, !.ret = Null]

\* The engine was handed something it does not define behaviour for: on a
\* fragile build the process dies there, otherwise the call has no effect.
Fault(e, f) ==
    [e EXCEPT !.faults = @ \cup {f}, !.aborted = e.fragile]

Logged(e, fn, h, n, r) ==
    [e EXCEPT !.calls = Append(@, Call(fn, h, n, r)), !.ret = r]

StreamLive(e, s) == s \in StreamIds /\ e.streams[s].st = "live"
StreamFault(e, s) == IF s = Null THEN "null_handle" ELSE "dead_handle"
RecLive(e, r) == r = RecH /\ e.rec = "live"
RecFault(e, r) == IF r = Null THEN "null_handle" ELSE "dead_handle"

FreeIds(e) == {s \in StreamIds : e.streams[s].st = "none"}
MinOf(S) == CHOOSE x \in S : \A y \in S : x <= y

EngCreateRecognizer(e, fn, ok) ==
    IF e.aborted THEN e
    ELSE IF ok /\ e.rec = "none"
         THEN Logged([e EXCEPT !.rec = "live", !.nCreateRec = @ + 1],
                     fn, Null, 0, RecH)
         ELSE Logged(e, fn, Null, 0, Null)

EngDestroyRecognizer(e, fn, r) ==
    IF e.aborted THEN e
    ELSE LET e1 == Logged([e EXCEPT !.nDestroyRec = @ + 1], fn, r, 0, Null)
         IN IF RecLive(e, r)
            THEN [e1 EXCEPT !.rec = "destroyed"]
            ELSE Fault(e1, RecFault(e, r))

EngCreateStream(e, fn, r, ok) ==
    IF e.aborted THEN e
    ELSE IF ~RecLive(e, r)
         THEN Fault(Logged(e, fn, r, 0, Null), RecFault(e, r))
         ELSE IF ok /\ FreeIds(e) # {}
              THEN LET s == MinOf(FreeIds(e))
                   IN Logged([e EXCEPT !.streams[s].st = "live"], fn, r, 0, s)
              ELSE Logged(e, fn, r, 0, Null)

EngDestroyStream(e, fn, s) ==
    IF e.aborted THEN e
    ELSE LET e1 == Logged(e, fn, s, 0, Null)
         IN IF s \in StreamIds
            THEN LET e2 == [e1 EXCEPT !.streams[s].destroys = @ + 1]
                 IN IF StreamLive(e, s)
                    THEN [e2 EXCEPT !.streams[s] =
                              [FreshStream EXCEPT !.st = "destroyed", !.destroys = 1]]
                    ELSE Fault(e2, "dead_handle")
            ELSE Fault(e1, "null_handle")

EngAcceptWaveform(e, fn, s, n) ==
    IF e.aborted THEN e
    ELSE LET e1 == Logged(e, fn, s, n, Null)
         IN IF ~StreamLive(e, s) THEN Fault(e1, StreamFault(e, s))
            ELSE IF n < 0 THEN Fault(e1, "bad_count")
            ELSE IF e.streams[s].finished THEN Fault(e1, "after_finished")
            ELSE LET total == e.streams[s].buf + n
                 IN [e1 EXCEPT !.streams[s].buf = total % ChunkSamples,
                               !.streams[s].ready = @ + (total \div ChunkSamples)]

EngIsReady(e, fn, r, s) ==
    IF e.aborted THEN e
    ELSE IF ~StreamLive(e, s)
         THEN Fault(Logged(e, fn, s, 0, FALSE), StreamFault(e, s))
         ELSE Logged(e, fn, s, 0, e.streams[s].ready > 0)

EngDecode(e, fn, r, s) ==
    IF e.aborted THEN e
    ELSE LET e1 == Logged(e, fn, s, 0, Null)
         IN IF ~StreamLive(e, s) THEN Fault(e1, StreamFault(e, s))
            ELSE IF e.streams[s].ready = 0 THEN Fault(e1, "decode_not_ready")
            ELSE [e1 EXCEPT !.streams[s].ready = @ - 1,
                            !.streams[s].decoded = @ + 1]

\* Batch decoding is complete after one call: every buffered sample is decoded.
EngDecodeOffline(e, fn, r, s) ==
    IF e.aborted THEN e
    ELSE LET e1 == Logged(e, fn, s, 0, Null)
         IN IF ~StreamLive(e, s) THEN Fault(e1, StreamFault(e, s))
            ELSE [e1 EXCEPT !.streams[s].decoded =
                                @ + e.streams[s].ready
                                  + (IF e.streams[s].buf > 0 THEN 1 ELSE 0),
                            !.streams[s].ready = 0,
                            !.streams[s].buf = 0]

\* The transient result is a fresh copy the caller must release, or null.
EngGetResult(e, fn, r, s, nonnull) ==
    IF e.aborted THEN e
    ELSE IF ~StreamLive(e, s)
         THEN Fault(Logged(e, fn, s, 0, Null), StreamFault(e, s))
         ELSE IF nonnull
              THEN Logged([e EXCEPT !.results = @ + 1], fn, s, 0, ResH)
              ELSE Logged(e, fn, s, 0, Null)

EngDestroyResult(e, fn, p) ==
    IF e.aborted THEN e
    ELSE LET e1 == Logged(e, fn, p, 0, Null)
         IN IF p = Null \/ e.results = 0 THEN Fault(e1, "null_handle")
            ELSE [e1 EXCEPT !.results = @ - 1]

EngIsEndpoint(e, fn, r, s, ep) ==
    IF e.aborted THEN e
    ELSE IF ~StreamLive(e, s)
         THEN Fault(Logged(e, fn, s, 0, FALSE), StreamFault(e, s))
         ELSE Logged(e, fn, s, 0, ep)

EngReset(e, fn, r, s) ==
    IF e.aborted THEN e
    ELSE LET e1 == Logged(e, fn, s, 0, Null)
         IN IF ~StreamLive(e, s) THEN Fault(e1, StreamFault(e, s))
            ELSE [e1 EXCEPT !.streams[s].decoded = 0]

EngInputFinished(e, fn, s) ==
    IF e.aborted THEN e
    ELSE LET e1 == Logged(e, fn, s, 0, Null)
         IN IF ~StreamLive(e, s) THEN Fault(e1, StreamFault(e, s))
            ELSE [e1 EXCEPT !.streams[s].finished = TRUE,
                            !.streams[s].buf = 0,
                            !.streams[s].ready =
                                @ + (IF e.streams[s].buf > 0 THEN 1 ELSE 0)]

\* The text a live stream's result holds.
ResultText(e, s) == IF StreamLive(e, s) THEN Text(e.streams[s].decoded) ELSE EmptyString

\* Whether a live stream can take n more samples within MaxUnits.
Fits(e, s, n) ==
    StreamLive(e, s) =>
        e.streams[s].ready + e.streams[s].decoded
            + ((e.streams[s].buf + n) \div ChunkSamples) <= MaxUnits

\* ---------------------------------------------------------------- state
VARIABLES
    engine,     \* the engine behind the FFI
    kind,       \* which recognizer type the program constructed
    owner,      \* "none" | "live" | "failed" (new returned Err) | "dropped"
    self,       \* the fields of the Rust struct: recognizer and stream pointers
    held,       \* stream pointers create_stream has handed to the caller
    op,         \* the last public operation: its name and stream argument
    ret,        \* what the last public operation returned
    pc,         \* where a method followed statement by statement stands
    plan,       \* the sub-chunks (sample counts) a caller has yet to feed
    fed,        \* how many samples the caller has fed so far
    config,     \* the configuration value a constructor was given
    desc,       \* the descriptor the constructor handed to the engine
    inflight,   \* per thread, the method it is inside of
    samples     \* the length of the sample buffer the last call was given

Threads == 1..NumThreads
\* A thread that is inside no method.
Idle == [m |-> "none", s |-> Null, n |-> 0, raced |-> FALSE]

\* What only the statement-level and scenario specifications change.
scenario == <<pc, plan, fed, config, desc, inflight, samples>>

vars == <<engine, kind, owner, self, held, op, ret, scenario>>

NoSelf == [recognizer |-> Null, stream |-> Null]

\* What a public operation hands back: the type of the value and the value.  A
\* process the engine killed hands back nothing.
Ret(tag, val) == [tag |-> tag, val |-> val]
Unit == Ret("unit", Null)
Returned(e, r) == IF e.aborted THEN Ret("abort", Null) ELSE r
Op(name, s) == [name |-> name, s |-> s]

Init ==
    /\ engine \in {EngineInit(f) : f \in BOOLEAN}
    /\ kind = "none"
    /\ owner = "none"
    /\ self = NoSelf
    /\ held = {}
    /\ op = Op("init", Null)
    /\ ret = Unit
    /\ pc = "idle"
    /\ plan = <<>>
    /\ fed = 0
    /\ config = <<>>
    /\ desc = <<>>
    /\ inflight = [t \in Threads |-> Idle]
    /\ samples = Usize(0, 0)

Running == owner = "live" /\ ~engine.aborted

\* ------------------------------------------------- ParaformerRecognizer
SherpaOnnxCreateOfflineRecognizer(e, ok) ==
    EngCreateRecognizer(e, "create_offline_recognizer", ok)
SherpaOnnxDestroyOfflineRecognizer(e, r) ==
    EngDestroyRecognizer(e, "destroy_offline_recognizer", r)
SherpaOnnxCreateOfflineStream(e, r, ok) ==
    EngCreateStream(e, "create_offline_stream", r, ok)
SherpaOnnxAcceptWaveformOffline(e, s, n) ==
    EngAcceptWaveform(e, "accept_waveform_offline", s, n)
SherpaOnnxDecodeOfflineStream(e, r, s) ==
    EngDecodeOffline(e, "decode_offline", r, s)
SherpaOnnxGetOfflineStreamResult(e, s, nonnull) ==
    EngGetResult(e, "get_offline_result", RecH, s, nonnull)
SherpaOnnxDestroyOfflineRecognizerResult(e, p) ==
    EngDestroyResult(e, "destroy_offline_result", p)
SherpaOnnxDestroyOfflineStream(e, s) ==
    EngDestroyStream(e, "destroy_offline_stream", s)

\* ParaformerRecognizer::new: the descriptor is built, the recognizer created,
\* and a null recognizer bails before anything else is touched.
ParaformerRecognizer_new(recOk) ==
    /\ owner = "none"
    /\ LET e1 == SherpaOnnxCreateOfflineRecognizer(Begin(engine), recOk)
       IN /\ engine' = e1
          /\ IF e1.ret = Null
             THEN owner' = "failed" /\ ret' = Ret("Err", Null) /\ self' = NoSelf
             ELSE owner' = "live" /\ ret' = Ret("Ok", Null)
                  /\ self' = [recognizer |-> e1.ret, stream |-> Null]
    /\ kind' = "paraformer"
    /\ op' = Op("ParaformerRecognizer::new", Null)
    /\ UNCHANGED held
    /\ UNCHANGED scenario

\* result_ptr.read(): reading through a null result pointer is undefined.
ReadResult(e, p) == IF p = Null THEN Fault(e, "null_read") ELSE e

\* The engine calls of ParaformerRecognizer::transcribe, in the body's order;
\* none of the returned pointers is checked.
TranscribeCalls(e, r, n, streamOk, resOk) ==
    LET e1 == SherpaOnnxCreateOfflineStream(e, r, streamOk)
        stream == e1.ret
        e2 == SherpaOnnxAcceptWaveformOffline(e1, stream, AsI32(n))
        e3 == SherpaOnnxDecodeOfflineStream(e2, r, stream)
        e4 == SherpaOnnxGetOfflineStreamResult(e3, stream, resOk)
        result_ptr == e4.ret
        e5 == ReadResult(e4, result_ptr)
        e6 == SherpaOnnxDestroyOfflineRecognizerResult(e5, result_ptr)
        e7 == SherpaOnnxDestroyOfflineStream(e6, stream)
    IN [eng |-> e7,
        result |-> IF result_ptr = Null THEN Ret("garbage", Null)
                   ELSE Ret("OfflineRecognizerResult", ResultText(e4, stream))]

ParaformerRecognizer_transcribe(n, streamOk, resOk) ==
    /\ Running /\ kind = "paraformer"
    /\ streamOk => FreeIds(engine) # {}
    /\ LET t == TranscribeCalls(Begin(engine), self.recognizer, Usize(0, n), streamOk, resOk)
       IN engine' = t.eng /\ ret' = Returned(t.eng, t.result)
    /\ op' = Op("ParaformerRecognizer::transcribe", Null)
    /\ UNCHANGED <<kind, owner, self, held>>
    /\ UNCHANGED scenario

ParaformerRecognizer_drop ==
    /\ Running /\ kind = "paraformer"
    /\ engine' = SherpaOnnxDestroyOfflineRecognizer(Begin(engine), self.recognizer)
    /\ owner' = "dropped"
    /\ op' = Op("ParaformerRecognizer::drop", Null)
    /\ ret' = Returned(engine', Unit)
    /\ UNCHANGED <<kind, self, held>>
    /\ UNCHANGED scenario

\* ------------------------------------------------ the online engine calls
SherpaOnnxCreateOnlineRecognizer(e, ok) ==
    EngCreateRecognizer(e, "create_recognizer", ok)
SherpaOnnxDestroyOnlineRecognizer(e, r) ==
    EngDestroyRecognizer(e, "destroy_recognizer", r)
SherpaOnnxCreateOnlineStream(e, r, ok) ==
    EngCreateStream(e, "create_stream", r, ok)
SherpaOnnxDestroyOnlineStream(e, s) ==
    EngDestroyStream(e, "destroy_stream", s)
\* SherpaOnnxOnlineStreamAcceptWaveform resetting the stream before it feeds it.
SherpaOnnxOnlineStreamAcceptWaveform_AfterReset(e, s, n) ==
    EngAcceptWaveform(EngReset(e, "reset", RecH, s), "accept_waveform", s, n)
SherpaOnnxOnlineStreamAcceptWaveform(e, s, n) ==
    EngAcceptWaveform(e, "accept_waveform", s, n)
SherpaOnnxDecodeOnlineStream(e, r, s) ==
    EngDecode(e, "decode", r, s)
SherpaOnnxIsOnlineStreamReady(e, r, s) ==
    EngIsReady(e, "is_ready", r, s)
SherpaOnnxGetOnlineStreamResult(e, r, s, nonnull) ==
    EngGetResult(e, "get_result", r, s, nonnull)
SherpaOnnxDestroyOnlineRecognizerResult(e, p) ==
    EngDestroyResult(e, "destroy_result", p)
SherpaOnnxOnlineStreamIsEndpoint(e, r, s, ep) ==
    EngIsEndpoint(e, "is_endpoint", r, s, ep)
\* SherpaOnnxOnlineStreamReset bound to the engine's end-of-input call.
SherpaOnnxOnlineStreamReset_AsInputFinished(e, r, s) ==
    EngInputFinished(e, "input_finished", s)
SherpaOnnxOnlineStreamReset(e, r, s) ==
    EngReset(e, "reset", r, s)
SherpaOnnxOnlineStreamInputFinished(e, s) ==
    EngInputFinished(e, "input_finished", s)

\* GetResultCalls releasing the result without the null check.
GetResultCalls_NoNullCheck(e, r, s, resOk) ==
    LET e1 == SherpaOnnxGetOnlineStreamResult(e, r, s, resOk)
        result_ptr == e1.ret
    IN [eng |-> SherpaOnnxDestroyOnlineRecognizerResult(e1, result_ptr),
        text |-> IF result_ptr = Null THEN EmptyString ELSE ResultText(e1, s)]

\* GetResultCalls copying the text and never releasing the result.
GetResultCalls_NoRelease(e, r, s, resOk) ==
    LET e1 == SherpaOnnxGetOnlineStreamResult(e, r, s, resOk)
        result_ptr == e1.ret
    IN [eng |-> e1,
        text |-> IF result_ptr = Null THEN EmptyString ELSE ResultText(e1, s)]

\* The shared body of the three result extractions: a null result pointer is an
\* empty string, otherwise the text is copied and the result released.
GetResultCalls(e, r, s, resOk) ==
    LET e1 == SherpaOnnxGetOnlineStreamResult(e, r, s, resOk)
        result_ptr == e1.ret
    IN IF e1.aborted THEN [eng |-> e1, text |-> EmptyString]
       ELSE IF result_ptr = Null THEN [eng |-> e1, text |-> EmptyString]
       ELSE [eng |-> SherpaOnnxDestroyOnlineRecognizerResult(e1, result_ptr),
             text |-> ResultText(e1, s)]

\* ------------------------------------------- OnlineTransducerRecognizer
\* TransducerNewCalls bailing on a null stream without destroying the recognizer.
TransducerNewCalls_LeakOnNullStream(e, recOk, streamOk) ==
    LET e1 == SherpaOnnxCreateOnlineRecognizer(e, recOk)
        recognizer == e1.ret
    IN IF recognizer = Null
       THEN [eng |-> e1, ok |-> FALSE, self |-> NoSelf]
       ELSE LET e2 == SherpaOnnxCreateOnlineStream(e1, recognizer, streamOk)
                stream == e2.ret
            IN IF stream = Null
               THEN [eng |-> e2, ok |-> FALSE, self |-> NoSelf]
               ELSE [eng |-> e2, ok |-> TRUE,
                     self |-> [recognizer |-> recognizer, stream |-> stream]]

\* new: recognizer, then stream; a null stream destroys the recognizer again.
TransducerNewCalls(e, recOk, streamOk) ==
    LET e1 == SherpaOnnxCreateOnlineRecognizer(e, recOk)
        recognizer == e1.ret
    IN IF recognizer = Null
       THEN [eng |-> e1, ok |-> FALSE, self |-> NoSelf]
       ELSE LET e2 == SherpaOnnxCreateOnlineStream(e1, recognizer, streamOk)
                stream == e2.ret
            IN IF stream = Null
               THEN [eng |-> SherpaOnnxDestroyOnlineRecognizer(e2, recognizer),
                     ok |-> FALSE, self |-> NoSelf]
               ELSE [eng |-> e2, ok |-> TRUE,
                     self |-> [recognizer |-> recognizer, stream |-> stream]]

OnlineTransducerRecognizer_new(recOk, streamOk) ==
    /\ owner = "none"
    /\ LET c == TransducerNewCalls(Begin(engine), recOk, streamOk)
       IN /\ engine' = c.eng
          /\ self' = c.self
          /\ owner' = IF c.ok THEN "live" ELSE "failed"
          /\ ret' = Ret(IF c.ok THEN "Ok" ELSE "Err", Null)
    /\ kind' = "transducer"
    /\ op' = Op("OnlineTransducerRecognizer::new", Null)
    /\ UNCHANGED held
    /\ UNCHANGED scenario

\* samples.len().try_into().unwrap(): panics when the length exceeds i32::MAX.
TransducerAcceptCalls(e, s, n) ==
    IF TryIntoI32(n) # <<>>
    THEN [eng |-> SherpaOnnxOnlineStreamAcceptWaveform(e, s, TryIntoI32(n)[1]),
          panic |-> FALSE]
    ELSE [eng |-> e, panic |-> TRUE]

OnlineTransducerRecognizer_accept_waveform(n) ==
    /\ Running /\ kind = "transducer"
    /\ Fits(engine, self.stream, n)
    /\ LET c == TransducerAcceptCalls(Begin(engine), self.stream, Usize(0, n))
       IN engine' = c.eng /\ ret' = Returned(c.eng, IF c.panic THEN Ret("panic", Null) ELSE Unit)
    /\ op' = Op("OnlineTransducerRecognizer::accept_waveform", self.stream)
    /\ UNCHANGED <<kind, owner, self, held>>
    /\ UNCHANGED scenario

OnlineTransducerRecognizer_decode ==
    /\ Running /\ kind = "transducer"
    /\ engine' = SherpaOnnxDecodeOnlineStream(Begin(engine), self.recognizer, self.stream)
    /\ ret' = Returned(engine', Unit)
    /\ op' = Op("OnlineTransducerRecognizer::decode", self.stream)
    /\ UNCHANGED <<kind, owner, self, held>>
    /\ UNCHANGED scenario

OnlineTransducerRecognizer_is_ready ==
    /\ Running /\ kind = "transducer"
    /\ LET e1 == SherpaOnnxIsOnlineStreamReady(Begin(engine), self.recognizer, self.stream)
       IN engine' = e1 /\ ret' = Returned(e1, Ret("bool", e1.ret))
    /\ op' = Op("OnlineTransducerRecognizer::is_ready", self.stream)
    /\ UNCHANGED <<kind, owner, self, held>>
    /\ UNCHANGED scenario

OnlineTransducerRecognizer_get_result(resOk) ==
    /\ Running /\ kind = "transducer"
    /\ LET c == GetResultCalls(Begin(engine), self.recognizer, self.stream, resOk)
       IN engine' = c.eng /\ ret' = Returned(c.eng, Ret("String", c.text))
    /\ op' = Op("OnlineTransducerRecognizer::get_result", self.stream)
    /\ UNCHANGED <<kind, owner, self, held>>
    /\ UNCHANGED scenario

OnlineTransducerRecognizer_is_endpoint(ep) ==
    /\ Running /\ kind = "transducer"
    /\ LET e1 == SherpaOnnxOnlineStreamIsEndpoint(Begin(engine), self.recognizer,
                                                  self.stream, ep)
       IN engine' = e1 /\ ret' = Returned(e1, Ret("bool", e1.ret))
    /\ op' = Op("OnlineTransducerRecognizer::is_endpoint", self.stream)
    /\ UNCHANGED <<kind, owner, self, held>>
    /\ UNCHANGED scenario

OnlineTransducerRecognizer_reset ==
    /\ Running /\ kind = "transducer"
    /\ engine' = SherpaOnnxOnlineStreamReset(Begin(engine), self.recognizer, self.stream)
    /\ ret' = Returned(engine', Unit)
    /\ op' = Op("OnlineTransducerRecognizer::reset", self.stream)
    /\ UNCHANGED <<kind, owner, self, held>>
    /\ UNCHANGED scenario

\* while SherpaOnnxIsOnlineStreamReady(..) != 0 { SherpaOnnxDecodeOnlineStream(..) }
RECURSIVE DrainWhileReady(_, _, _)
DrainWhileReady(e, r, s) ==
    LET e1 == SherpaOnnxIsOnlineStreamReady(e, r, s)
    IN IF e1.aborted \/ e1.ret = FALSE THEN e1
       ELSE DrainWhileReady(SherpaOnnxDecodeOnlineStream(e1, r, s), r, s)

\* TransducerInputFinishedCalls without the drain loop.
TransducerInputFinishedCalls_NoDrain(e, r, s) ==
    SherpaOnnxOnlineStreamInputFinished(e, s)

TransducerInputFinishedCalls(e, r, s) ==
    DrainWhileReady(SherpaOnnxOnlineStreamInputFinished(e, s), r, s)

OnlineTransducerRecognizer_input_finished ==
    /\ Running /\ kind = "transducer"
    /\ engine' = TransducerInputFinishedCalls(Begin(engine), self.recognizer, self.stream)
    /\ ret' = Returned(engine', Unit)
    /\ op' = Op("OnlineTransducerRecognizer::input_finished", self.stream)
    /\ UNCHANGED <<kind, owner, self, held>>
    /\ UNCHANGED scenario

\* TransducerDropCalls destroying the recognizer before the stream.
TransducerDropCalls_RecognizerFirst(e, r, s) ==
    SherpaOnnxDestroyOnlineStream(SherpaOnnxDestroyOnlineRecognizer(e, r), s)

\* Drop: the stream first, then the recognizer.
TransducerDropCalls(e, r, s) ==
    SherpaOnnxDestroyOnlineRecognizer(SherpaOnnxDestroyOnlineStream(e, s), r)

OnlineTransducerRecognizer_drop ==
    /\ Running /\ kind = "transducer"
    /\ engine' = TransducerDropCalls(Begin(engine), self.recognizer, self.stream)
    /\ owner' = "dropped"
    /\ ret' = Returned(engine', Unit)
    /\ op' = Op("OnlineTransducerRecognizer::drop", self.stream)
    /\ UNCHANGED <<kind, self, held>>
    /\ UNCHANGED scenario

\* ------------------------------------------------------ ZipFormerOnline
\* ZipFormerNewCalls going on to create the stream from a null recognizer.
ZipFormerNewCalls_NoRecognizerCheck(e, recOk, streamOk) ==
    LET e1 == SherpaOnnxCreateOnlineRecognizer(e, recOk)
        recognizer == e1.ret
        e2 == SherpaOnnxCreateOnlineStream(e1, recognizer, streamOk)
        stream == e2.ret
    IN IF stream = Null
       THEN [eng |-> SherpaOnnxDestroyOnlineRecognizer(e2, recognizer),
             ok |-> FALSE, self |-> NoSelf]
       ELSE [eng |-> e2, ok |-> TRUE,
             self |-> [recognizer |-> recognizer, stream |-> Null]]

\* new: like the transducer's, but the stream it creates is not kept.
ZipFormerNewCalls(e, recOk, streamOk) ==
    LET e1 == SherpaOnnxCreateOnlineRecognizer(e, recOk)
        recognizer == e1.ret
    IN IF recognizer = Null
       THEN [eng |-> e1, ok |-> FALSE, self |-> NoSelf]
       ELSE LET e2 == SherpaOnnxCreateOnlineStream(e1, recognizer, streamOk)
                stream == e2.ret
            IN IF stream = Null
               THEN [eng |-> SherpaOnnxDestroyOnlineRecognizer(e2, recognizer),
                     ok |-> FALSE, self |-> NoSelf]
               ELSE [eng |-> e2, ok |-> TRUE,
                     self |-> [recognizer |-> recognizer, stream |-> Null]]

ZipFormerOnline_new(recOk, streamOk) ==
    /\ owner = "none"
    /\ LET c == ZipFormerNewCalls(Begin(engine), recOk, streamOk)
       IN /\ engine' = c.eng
          /\ self' = c.self
          /\ owner' = IF c.ok THEN "live" ELSE "failed"
          /\ ret' = Ret(IF c.ok THEN "Ok" ELSE "ConfigError", Null)
    /\ kind' = "zipformer"
    /\ op' = Op("ZipFormerOnline::new", Null)
    /\ UNCHANGED held
    /\ UNCHANGED scenario

ZipFormerOnline_create_stream(streamOk) ==
    /\ Running /\ kind = "zipformer"
    /\ streamOk => FreeIds(engine) # {}
    /\ LET e1 == SherpaOnnxCreateOnlineStream(Begin(engine), self.recognizer, streamOk)
       IN /\ engine' = e1
          /\ ret' = Returned(e1, Ret("ptr", e1.ret))
          /\ held' = IF e1.aborted THEN held ELSE held \cup {e1.ret}
    /\ op' = Op("ZipFormerOnline::create_stream", Null)
    /\ UNCHANGED <<kind, owner, self>>
    /\ UNCHANGED scenario

ZipFormerOnline_destroy_stream(stream) ==
    /\ Running /\ kind = "zipformer"
    /\ stream \in StreamIds => engine.streams[stream].destroys < MaxDestroys
    /\ engine' = SherpaOnnxDestroyOnlineStream(Begin(engine), stream)
    /\ ret' = Returned(engine', Unit)
    /\ op' = Op("ZipFormerOnline::destroy_stream", stream)
    /\ UNCHANGED <<kind, owner, self, held>>
    /\ UNCHANGED scenario

\* samples.len() as i32: no check, the length is truncated.
ZipFormerOnline_accept_waveform(stream, n) ==
    /\ Running /\ kind = "zipformer"
    /\ Fits(engine, stream, n)
    /\ engine' = SherpaOnnxOnlineStreamAcceptWaveform(Begin(engine), stream, AsI32(Usize(0, n)))
    /\ ret' = Returned(engine', Unit)
    /\ op' = Op("ZipFormerOnline::accept_waveform", stream)
    /\ UNCHANGED <<kind, owner, self, held>>
    /\ UNCHANGED scenario

\* decode: one engine decode, then the result extraction.
ZipFormerDecodeCalls(e, r, s, resOk) ==
    GetResultCalls(SherpaOnnxDecodeOnlineStream(e, r, s), r, s, resOk)

ZipFormerOnline_decode(stream, resOk) ==
    /\ Running /\ kind = "zipformer"
    /\ LET c == ZipFormerDecodeCalls(Begin(engine), self.recognizer, stream, resOk)
       IN engine' = c.eng /\ ret' = Returned(c.eng, Ret("String", c.text))
    /\ op' = Op("ZipFormerOnline::decode", stream)
    /\ UNCHANGED <<kind, owner, self, held>>
    /\ UNCHANGED scenario

\* input_finished: the engine's input_finished and nothing else.
ZipFormerInputFinishedCalls(e, r, s) ==
    SherpaOnnxOnlineStreamInputFinished(e, s)

ZipFormerOnline_input_finished(stream) ==
    /\ Running /\ kind = "zipformer"
    /\ engine' = ZipFormerInputFinishedCalls(Begin(engine), self.recognizer, stream)
    /\ ret' = Returned(engine', Unit)
    /\ op' = Op("ZipFormerOnline::input_finished", stream)
    /\ UNCHANGED <<kind, owner, self, held>>
    /\ UNCHANGED scenario

ZipFormerOnline_reset(stream) ==
    /\ Running /\ kind = "zipformer"
    /\ engine' = SherpaOnnxOnlineStreamReset(Begin(engine), self.recognizer, stream)
    /\ ret' = Returned(engine', Unit)
    /\ op' = Op("ZipFormerOnline::reset", stream)
    /\ UNCHANGED <<kind, owner, self, held>>
    /\ UNCHANGED scenario

ZipFormerOnline_is_ready(stream) ==
    /\ Running /\ kind = "zipformer"
    /\ LET e1 == SherpaOnnxIsOnlineStreamReady(Begin(engine), self.recognizer, stream)
       IN engine' = e1 /\ ret' = Returned(e1, Ret("bool", e1.ret))
    /\ op' = Op("ZipFormerOnline::is_ready", stream)
    /\ UNCHANGED <<kind, owner, self, held>>
    /\ UNCHANGED scenario

ZipFormerOnline_get_result(stream, resOk) ==
    /\ Running /\ kind = "zipformer"
    /\ LET c == GetResultCalls(Begin(engine), self.recognizer, stream, resOk)
       IN engine' = c.eng /\ ret' = Returned(c.eng, Ret("String", c.text))
    /\ op' = Op("ZipFormerOnline::get_result", stream)
    /\ UNCHANGED <<kind, owner, self, held>>
    /\ UNCHANGED scenario

ZipFormerOnline_is_endpoint(stream, ep) ==
    /\ Running /\ kind = "zipformer"
    /\ LET e1 == SherpaOnnxOnlineStreamIsEndpoint(Begin(engine), self.recognizer,
                                                  stream, ep)
       IN engine' = e1 /\ ret' = Returned(e1, Ret("bool", e1.ret))
    /\ op' = Op("ZipFormerOnline::is_endpoint", stream)
    /\ UNCHANGED <<kind, owner, self, held>>
    /\ UNCHANGED scenario

ZipFormerOnline_decode_stream(stream) ==
    /\ Running /\ kind = "zipformer"
    /\ engine' = SherpaOnnxDecodeOnlineStream(Begin(engine), self.recognizer, stream)
    /\ ret' = Returned(engine', Ret("Ok", Null))
    /\ op' = Op("ZipFormerOnline::decode_stream", stream)
    /\ UNCHANGED <<kind, owner, self, held>>
    /\ UNCHANGED scenario

\* ZipFormerDropCalls releasing nothing.
ZipFormerDropCalls_Leak(e, r) == e

\* Drop: the recognizer only.
ZipFormerDropCalls(e, r) == SherpaOnnxDestroyOnlineRecognizer(e, r)

ZipFormerOnline_drop ==
    /\ Running /\ kind = "zipformer"
    /\ engine' = ZipFormerDropCalls(Begin(engine), self.recognizer)
    /\ owner' = "dropped"
    /\ ret' = Returned(engine', Unit)
    /\ op' = Op("ZipFormerOnline::drop", Null)
    /\ UNCHANGED <<kind, self, held>>
    /\ UNCHANGED scenario

Next ==
    \/ \E recOk \in BOOLEAN : ParaformerRecognizer_new(recOk)
    \/ \E n \in SampleLens, streamOk \in BOOLEAN, resOk \in BOOLEAN :
          ParaformerRecognizer_transcribe(n, streamOk, resOk)
    \/ ParaformerRecognizer_drop
    \/ \E recOk \in BOOLEAN, streamOk \in BOOLEAN :
          OnlineTransducerRecognizer_new(recOk, streamOk)
    \/ \E n \in SampleLens : OnlineTransducerRecognizer_accept_waveform(n)
    \/ OnlineTransducerRecognizer_decode
    \/ OnlineTransducerRecognizer_is_ready
    \/ \E resOk \in BOOLEAN : OnlineTransducerRecognizer_get_result(resOk)
    \/ \E ep \in BOOLEAN : OnlineTransducerRecognizer_is_endpoint(ep)
    \/ OnlineTransducerRecognizer_reset
    \/ OnlineTransducerRecognizer_input_finished
    \/ OnlineTransducerRecognizer_drop
    \/ \E recOk \in BOOLEAN, streamOk \in BOOLEAN : ZipFormerOnline_new(recOk, streamOk)
    \/ \E streamOk \in BOOLEAN : ZipFormerOnline_create_stream(streamOk)
    \/ \E s \in held : ZipFormerOnline_destroy_stream(s)
    \/ \E s \in held, n \in SampleLens : ZipFormerOnline_accept_waveform(s, n)
    \/ \E s \in held, resOk \in BOOLEAN : ZipFormerOnline_decode(s, resOk)
    \/ \E s \in held : ZipFormerOnline_input_finished(s)
    \/ \E s \in held : ZipFormerOnline_reset(s)
    \/ \E s \in held : ZipFormerOnline_is_ready(s)
    \/ \E s \in held, resOk \in BOOLEAN : ZipFormerOnline_get_result(s, resOk)
    \/ \E s \in held, ep \in BOOLEAN : ZipFormerOnline_is_endpoint(s, ep)
    \/ \E s \in held : ZipFormerOnline_decode_stream(s)
    \/ ZipFormerOnline_drop

Spec == Init /\ [][Next]_vars

\* ------------------------- input_finished, one statement at a time
\* OnlineTransducerRecognizer::input_finished followed statement by statement:
\* the end-of-input call, then the loop's test and body in turn.  Each statement
\* is one engine call, recorded on its own.
DrainInit == Init

\* The body of the loop with nothing in it.
LoopBodyCalls_Empty(e, r, s) == e

\* The body of `while is_ready { decode }`.
LoopBodyCalls(e, r, s) == SherpaOnnxDecodeOnlineStream(e, r, s)

\* The test of the loop: `SherpaOnnxIsOnlineStreamReady(..) != 0`.
LoopTestCalls(e, r, s) == SherpaOnnxIsOnlineStreamReady(e, r, s)

InputFinishedSignal ==
    /\ pc = "idle"
    /\ Running /\ kind = "transducer"
    /\ engine' = SherpaOnnxOnlineStreamInputFinished(Begin(engine), self.stream)
    /\ pc' = IF engine'.aborted THEN "done" ELSE "test"
    /\ op' = Op("OnlineTransducerRecognizer::input_finished", self.stream)
    /\ UNCHANGED <<kind, owner, self, held, ret, plan, fed, config, desc, inflight, samples>>

InputFinishedLoopTest ==
    /\ pc = "test"
    /\ LET e1 == LoopTestCalls(Begin(engine), self.recognizer, self.stream)
       IN /\ engine' = e1
          /\ pc' = IF e1.aborted \/ e1.ret = FALSE THEN "done" ELSE "body"
    /\ UNCHANGED <<kind, owner, self, held, op, ret, plan, fed, config, desc, inflight, samples>>

InputFinishedLoopBody ==
    /\ pc = "body"
    /\ engine' = LoopBodyCalls(Begin(engine), self.recognizer, self.stream)
    /\ pc' = "test"
    /\ UNCHANGED <<kind, owner, self, held, op, ret, plan, fed, config, desc, inflight, samples>>

InputFinishedReturn ==
    /\ pc = "done"
    /\ pc' = "idle"
    /\ ret' = Returned(engine, Unit)
    /\ UNCHANGED <<engine, kind, owner, self, held, op, plan, fed, config, desc, inflight, samples>>

DrainNext ==
    \/ pc = "idle" /\ \E recOk \in BOOLEAN, streamOk \in BOOLEAN :
          OnlineTransducerRecognizer_new(recOk, streamOk)
    \/ pc = "idle" /\ \E n \in SampleLens : OnlineTransducerRecognizer_accept_waveform(n)
    \/ pc = "idle" /\ OnlineTransducerRecognizer_decode
    \/ pc = "idle" /\ \E resOk \in BOOLEAN : OnlineTransducerRecognizer_get_result(resOk)
    \/ pc = "idle" /\ OnlineTransducerRecognizer_reset
    \/ pc = "idle" /\ OnlineTransducerRecognizer_drop
    \/ InputFinishedSignal
    \/ InputFinishedLoopTest
    \/ InputFinishedLoopBody
    \/ InputFinishedReturn

\* input_finished is straight-line code on one thread: once entered, its next
\* statement runs.
DrainSpec ==
    /\ DrainInit
    /\ [][DrainNext]_vars
    /\ WF_vars(InputFinishedLoopTest)
    /\ WF_vars(InputFinishedLoopBody)
    /\ WF_vars(InputFinishedReturn)

\* --------------------------------------- a caller feeding sub-chunks
\* A caller of OnlineTransducerRecognizer that feeds a sample sequence in
\* sub-chunks: accept_waveform, then `while is_ready() { decode() }`, chunk after
\* chunk, then input_finished and get_result.
RECURSIVE SumSeq(_)
SumSeq(q) == IF q = <<>> THEN 0 ELSE Head(q) + SumSeq(Tail(q))

\* The splits of at most MaxSamples samples into at most MaxChunks sub-chunks.
Splits ==
    {q \in UNION {[1..k -> SampleLens] : k \in 1..MaxChunks} : SumSeq(q) <= MaxSamples}

ChunkInit ==
    /\ engine \in {EngineInit(f) : f \in BOOLEAN}
    /\ kind = "none"
    /\ owner = "none"
    /\ self = NoSelf
    /\ held = {}
    /\ op = Op("init", Null)
    /\ ret = Unit
    /\ pc = "idle"
    /\ plan \in Splits
    /\ fed = 0
    /\ config = <<>>
    /\ desc = <<>>
    /\ inflight = [t \in Threads |-> Idle]
    /\ samples = Usize(0, 0)

ChunkNew ==
    /\ pc = "idle"
    /\ \E recOk \in BOOLEAN, streamOk \in BOOLEAN :
          /\ owner = "none"
          /\ LET c == TransducerNewCalls(Begin(engine), recOk, streamOk)
             IN /\ engine' = c.eng
                /\ self' = c.self
                /\ owner' = IF c.ok THEN "live" ELSE "failed"
                /\ ret' = Ret(IF c.ok THEN "Ok" ELSE "Err", Null)
                /\ pc' = IF c.ok THEN "feed" ELSE "end"
    /\ kind' = "transducer"
    /\ op' = Op("OnlineTransducerRecognizer::new", Null)
    /\ UNCHANGED <<held, plan, fed, config, desc, inflight, samples>>

ChunkAccept ==
    /\ pc = "feed" /\ plan # <<>>
    /\ LET c == TransducerAcceptCalls(Begin(engine), self.stream, Usize(0, Head(plan)))
       IN engine' = c.eng /\ ret' = Returned(c.eng, IF c.panic THEN Ret("panic", Null) ELSE Unit)
    /\ op' = Op("OnlineTransducerRecognizer::accept_waveform", self.stream)
    /\ plan' = Tail(plan)
    /\ fed' = fed + Head(plan)
    /\ pc' = "poll"
    /\ UNCHANGED <<kind, owner, self, held>>
    /\ UNCHANGED <<config, desc, inflight, samples>>

ChunkIsReady ==
    /\ pc = "poll"
    /\ LET e1 == SherpaOnnxIsOnlineStreamReady(Begin(engine), self.recognizer, self.stream)
       IN /\ engine' = e1
          /\ ret' = Returned(e1, Ret("bool", e1.ret))
          /\ pc' = IF e1.ret = TRUE THEN "decode" ELSE "feed"
    /\ op' = Op("OnlineTransducerRecognizer::is_ready", self.stream)
    /\ UNCHANGED <<kind, owner, self, held, plan, fed, config, desc, inflight, samples>>

ChunkDecode ==
    /\ pc = "decode"
    /\ engine' = SherpaOnnxDecodeOnlineStream(Begin(engine), self.recognizer, self.stream)
    /\ ret' = Returned(engine', Unit)
    /\ op' = Op("OnlineTransducerRecognizer::decode", self.stream)
    /\ pc' = "poll"
    /\ UNCHANGED <<kind, owner, self, held, plan, fed, config, desc, inflight, samples>>

ChunkInputFinished ==
    /\ pc = "feed" /\ plan = <<>>
    /\ engine' = TransducerInputFinishedCalls(Begin(engine), self.recognizer, self.stream)
    /\ ret' = Returned(engine', Unit)
    /\ op' = Op("OnlineTransducerRecognizer::input_finished", self.stream)
    /\ pc' = "finished"
    /\ UNCHANGED <<kind, owner, self, held, plan, fed, config, desc, inflight, samples>>

ChunkGetResult ==
    /\ pc = "finished"
    /\ \E resOk \in BOOLEAN :
          LET c == GetResultCalls(Begin(engine), self.recognizer, self.stream, resOk)
          IN engine' = c.eng /\ ret' = Returned(c.eng, Ret("String", c.text))
    /\ op' = Op("OnlineTransducerRecognizer::get_result", self.stream)
    /\ pc' = "result"
    /\ UNCHANGED <<kind, owner, self, held, plan, fed, config, desc, inflight, samples>>

ChunkDrop ==
    /\ pc = "result"
    /\ engine' = TransducerDropCalls(Begin(engine), self.recognizer, self.stream)
    /\ owner' = "dropped"
    /\ ret' = Returned(engine', Unit)
    /\ op' = Op("OnlineTransducerRecognizer::drop", self.stream)
    /\ pc' = "end"
    /\ UNCHANGED <<kind, self, held, plan, fed, config, desc, inflight, samples>>

ChunkNext ==
    \/ ChunkNew
    \/ ChunkAccept
    \/ ChunkIsReady
    \/ ChunkDecode
    \/ ChunkInputFinished
    \/ ChunkGetResult
    \/ ChunkDrop

ChunkSpec == ChunkInit /\ [][ChunkNext]_vars

\* The transcript get_result returns when all n samples go in one
\* accept_waveform call, followed by the drain, input_finished and get_result.
OneChunkTranscript(fragile, n) ==
    LET c0 == TransducerNewCalls(EngineInit(fragile), TRUE, TRUE)
        r == c0.self.recognizer
        s == c0.self.stream
        e1 == TransducerAcceptCalls(c0.eng, s, Usize(0, n)).eng
        e2 == DrainWhileReady(e1, r, s)
        e3 == TransducerInputFinishedCalls(e2, r, s)
    IN GetResultCalls(e3, r, s, TRUE).text

\* ------------------------------------------- configuration to descriptor
\* The values of the descriptor's fields.  A C string pointer carries the string
\* it points to; f32 values are written in tenths.
Ptr(s) == <<"ptr", s>>
NullPtr == <<"null", "">>
I32(n) == <<"int", n>>
F32(tenths) == <<"f32", tenths>>
IsAbsent(v) == v[1] = "null" \/ (v[1] \in {"int", "f32"} /\ v[2] = 0)
AllAbsent(sub) == \A f \in DOMAIN sub : IsAbsent(sub[f])

\* cstring_from_str(s).as_ptr(): a non-null pointer to a copy of s.
cstring_from_str(s) == Ptr(s)
\* bool.into() for a C int.
BoolInto(b) == I32(IF b THEN 1 ELSE 0)

\* Option<T>.
None == <<>>
Some(v) == <<v>>
unwrap_or(o, d) == IF o = None THEN d ELSE o[1]

\* get_default_provider().
get_default_provider == "cpu"

\* A structure left with arbitrary content in every field.
Zeroed_Uninit(ptrFields, intFields) ==
    [f \in ptrFields \cup intFields |-> IF f \in ptrFields THEN Ptr("?") ELSE I32(1)]

\* mem::zeroed() for a structure with the given pointer and integer fields.
Zeroed(ptrFields, intFields) ==
    [f \in ptrFields \cup intFields |-> IF f \in ptrFields THEN NullPtr ELSE I32(0)]

Paths == {"", "m.onnx"}
OptProviders == {None, Some("cuda")}
DecodingMethods == {"greedy_search", "modified_beam_search"}

ParaformerConfigs ==
    [model : Paths, tokens : Paths, provider : OptProviders,
     num_threads : {None, Some(1), Some(2)}, debug : BOOLEAN]

\* ParaformerRecognizer::new, the descriptor it builds.
Paraformer_recognizer_config(cfg) ==
    [decoding_method |-> cstring_from_str("greedy_search"),
     feat_config |-> [sample_rate |-> I32(16000), feature_dim |-> I32(80)],
     model_config |->
        [debug |-> BoolInto(cfg.debug),
         num_threads |-> I32(unwrap_or(cfg.num_threads, 1)),
         provider |-> cstring_from_str(unwrap_or(cfg.provider, get_default_provider)),
         tokens |-> cstring_from_str(cfg.tokens),
         paraformer |-> [model |-> cstring_from_str(cfg.model)],
         dolphin |-> Zeroed({"model"}, {}),
         bpe_vocab |-> NullPtr,
         model_type |-> NullPtr,
         modeling_unit |-> NullPtr,
         nemo_ctc |-> [model |-> NullPtr],
         tdnn |-> [model |-> NullPtr],
         telespeech_ctc |-> NullPtr,
         fire_red_asr |-> [encoder |-> NullPtr, decoder |-> NullPtr],
         transducer |-> [encoder |-> NullPtr, decoder |-> NullPtr, joiner |-> NullPtr],
         whisper |-> [encoder |-> NullPtr, decoder |-> NullPtr, language |-> NullPtr,
                      task |-> NullPtr, tail_paddings |-> I32(0)],
         sense_voice |-> [model |-> NullPtr, language |-> NullPtr, use_itn |-> I32(0)],
         moonshine |-> [preprocessor |-> NullPtr, encoder |-> NullPtr,
                        uncached_decoder |-> NullPtr, cached_decoder |-> NullPtr]],
     hotwords_file |-> NullPtr,
     hotwords_score |-> F32(0),
     lm_config |-> [model |-> NullPtr, scale |-> F32(0)],
     max_active_paths |-> I32(0),
     rule_fars |-> NullPtr,
     rule_fsts |-> NullPtr,
     blank_penalty |-> F32(0)]

\* impl Default for OnlineTransducerConfig.
OnlineTransducerConfig_default ==
    [decoder |-> "", encoder |-> "", joiner |-> "", tokens |-> "",
     model_type |-> "transducer",
     num_threads |-> 1,
     sample_rate |-> 16000,
     feature_dim |-> 80,
     decoding_method |-> "greedy_search",
     hotwords_file |-> "",
     hotwords_score |-> 10,
     modeling_unit |-> "",
     bpe_vocab |-> "",
     blank_penalty |-> 0,
     debug |-> FALSE,
     provider |-> None,
     enable_endpoint |-> TRUE,
     rule1_min_trailing_silence |-> 24,
     rule2_min_trailing_silence |-> 12,
     rule3_min_utterance_length |-> 200,
     max_active_paths |-> 4]

\* OnlineTransducerConfig values: the default with some fields set by the caller.
OnlineTransducerConfigs ==
    {[OnlineTransducerConfig_default EXCEPT
        !.encoder = enc, !.decoder = dec, !.joiner = dec, !.tokens = tok,
        !.num_threads = nt, !.provider = prov, !.decoding_method = dm,
        !.enable_endpoint = ee, !.rule1_min_trailing_silence = r1,
        !.max_active_paths = map] :
       enc \in Paths, dec \in Paths, tok \in Paths, nt \in {1, 2},
       prov \in OptProviders, dm \in DecodingMethods, ee \in BOOLEAN,
       r1 \in {24, 10}, map \in {4, 8}}

\* OnlineTransducerRecognizer::new, the descriptor it builds.
Transducer_recognizer_config(cfg) ==
    [feat_config |-> [sample_rate |-> I32(cfg.sample_rate),
                      feature_dim |-> I32(cfg.feature_dim)],
     model_config |->
        [transducer |-> [encoder |-> cstring_from_str(cfg.encoder),
                         decoder |-> cstring_from_str(cfg.decoder),
                         joiner |-> cstring_from_str(cfg.joiner)],
         tokens |-> cstring_from_str(cfg.tokens),
         num_threads |-> I32(cfg.num_threads),
         debug |-> BoolInto(cfg.debug),
         provider |-> cstring_from_str(unwrap_or(cfg.provider, get_default_provider)),
         model_type |-> cstring_from_str(cfg.model_type),
         modeling_unit |-> cstring_from_str(cfg.modeling_unit),
         bpe_vocab |-> cstring_from_str(cfg.bpe_vocab),
         tokens_buf |-> NullPtr,
         tokens_buf_size |-> I32(0),
         paraformer |-> Zeroed({"encoder", "decoder"}, {}),
         nemo_ctc |-> Zeroed({"model"}, {}),
         zipformer2_ctc |-> Zeroed({"model"}, {})],
     decoding_method |-> cstring_from_str(cfg.decoding_method),
     max_active_paths |-> I32(cfg.max_active_paths),
     enable_endpoint |-> BoolInto(cfg.enable_endpoint),
     rule1_min_trailing_silence |-> F32(cfg.rule1_min_trailing_silence),
     rule2_min_trailing_silence |-> F32(cfg.rule2_min_trailing_silence),
     rule3_min_utterance_length |-> F32(cfg.rule3_min_utterance_length),
     hotwords_file |-> cstring_from_str(cfg.hotwords_file),
     hotwords_score |-> F32(cfg.hotwords_score),
     ctc_fst_decoder_config |-> Zeroed({"graph"}, {"max_active"}),
     rule_fsts |-> NullPtr,
     rule_fars |-> NullPtr,
     blank_penalty |-> F32(cfg.blank_penalty),
     hotwords_buf |-> NullPtr,
     hotwords_buf_size |-> I32(0),
     hr |-> Zeroed({"dict_dir", "lexicon", "rule_fsts"}, {})]

\* ZipFormerOnlineConfig values; #[derive(Default)] gives the first of each.
ZipFormerOnlineConfigs ==
    [decoder : Paths, encoder : Paths, joiner : Paths, tokens : Paths,
     num_threads : {None, Some(2)}, provider : OptProviders, debug : BOOLEAN,
     sample_rate : {None, Some(8000)}, feature_dim : {None},
     decoding_method : {None, Some("modified_beam_search")}]

\* ZipFormerOnline::new, the descriptor it builds.
ZipFormer_recognizer_config(cfg) ==
    [feat_config |-> [sample_rate |-> I32(unwrap_or(cfg.sample_rate, 16000)),
                      feature_dim |-> I32(unwrap_or(cfg.feature_dim, 80))],
     model_config |->
        [transducer |-> [encoder |-> cstring_from_str(cfg.encoder),
                         decoder |-> cstring_from_str(cfg.decoder),
                         joiner |-> cstring_from_str(cfg.joiner)],
         tokens |-> cstring_from_str(cfg.tokens),
         num_threads |-> I32(unwrap_or(cfg.num_threads, 1)),
         debug |-> BoolInto(cfg.debug),
         provider |-> cstring_from_str(unwrap_or(cfg.provider, get_default_provider)),
         paraformer |-> Zeroed({"encoder", "decoder"}, {}),
         zipformer2_ctc |-> Zeroed({"model"}, {}),
         model_type |-> NullPtr,
         modeling_unit |-> NullPtr,
         bpe_vocab |-> NullPtr,
         tokens_buf |-> NullPtr,
         tokens_buf_size |-> I32(0),
         nemo_ctc |-> Zeroed({"model"}, {})],
     decoding_method |->
        cstring_from_str(unwrap_or(cfg.decoding_method, "greedy_search")),
     enable_endpoint |-> I32(0),
     hotwords_file |-> NullPtr,
     hotwords_score |-> F32(0),
     ctc_fst_decoder_config |-> Zeroed({"graph"}, {"max_active"}),
     rule_fsts |-> NullPtr,
     rule_fars |-> NullPtr,
     blank_penalty |-> F32(0),
     hotwords_buf |-> NullPtr,
     hotwords_buf_size |-> I32(0),
     hr |-> Zeroed({"dict_dir", "lexicon", "rule_fsts"}, {}),
     max_active_paths |-> I32(0),
     rule1_min_trailing_silence |-> F32(0),
     rule2_min_trailing_silence |-> F32(0),
     rule3_min_utterance_length |-> F32(0)]

\* The constructors with their configuration argument and the descriptor they
\* hand to the engine's create_recognizer.
ConfigParaformerNew ==
    \E cfg \in ParaformerConfigs, recOk \in BOOLEAN :
       /\ owner = "none"
       /\ config' = cfg
       /\ desc' = Paraformer_recognizer_config(cfg)
       /\ LET e1 == SherpaOnnxCreateOfflineRecognizer(Begin(engine), recOk)
          IN /\ engine' = e1
             /\ IF e1.ret = Null
                THEN owner' = "failed" /\ ret' = Ret("Err", Null) /\ self' = NoSelf
                ELSE owner' = "live" /\ ret' = Ret("Ok", Null)
                     /\ self' = [recognizer |-> e1.ret, stream |-> Null]
       /\ kind' = "paraformer"
       /\ op' = Op("ParaformerRecognizer::new", Null)
       /\ UNCHANGED <<held, pc, plan, fed, inflight, samples>>

ConfigTransducerNew ==
    \E cfg \in OnlineTransducerConfigs, recOk \in BOOLEAN, streamOk \in BOOLEAN :
       /\ owner = "none"
       /\ config' = cfg
       /\ desc' = Transducer_recognizer_config(cfg)
       /\ LET c == TransducerNewCalls(Begin(engine), recOk, streamOk)
          IN /\ engine' = c.eng
             /\ self' = c.self
             /\ owner' = IF c.ok THEN "live" ELSE "failed"
             /\ ret' = Ret(IF c.ok THEN "Ok" ELSE "Err", Null)
       /\ kind' = "transducer"
       /\ op' = Op("OnlineTransducerRecognizer::new", Null)
       /\ UNCHANGED <<held, pc, plan, fed, inflight, samples>>

ConfigZipFormerNew ==
    \E cfg \in ZipFormerOnlineConfigs, recOk \in BOOLEAN, streamOk \in BOOLEAN :
       /\ owner = "none"
       /\ config' = cfg
       /\ desc' = ZipFormer_recognizer_config(cfg)
       /\ LET c == ZipFormerNewCalls(Begin(engine), recOk, streamOk)
          IN /\ engine' = c.eng
             /\ self' = c.self
             /\ owner' = IF c.ok THEN "live" ELSE "failed"
             /\ ret' = Ret(IF c.ok THEN "Ok" ELSE "ConfigError", Null)
       /\ kind' = "zipformer"
       /\ op' = Op("ZipFormerOnline::new", Null)
       /\ UNCHANGED <<held, pc, plan, fed, inflight, samples>>

ConfigNext ==
    \/ ConfigParaformerNew
    \/ ConfigTransducerNew
    \/ ConfigZipFormerNew

ConfigSpec == Init /\ [][ConfigNext]_vars

\* ------------------------------------------- threads sharing a recognizer
\* OnlineTransducerRecognizer and ZipFormerOnline are declared Send and Sync, so
\* threads may share one through a shared reference.  A method taking &self may
\* be entered while other threads are inside &self methods; a method taking
\* &mut self only while no thread is inside any method.  The engine calls of a
\* method take effect when the thread leaves it.
SharedMethods == {"is_ready", "get_result", "is_endpoint"}
ExclusiveMethods == {"accept_waveform", "decode"}

\* The stream pointers a thread can pass: the struct's own stream, or any
\* non-null pointer create_stream returned.
ThreadStreams ==
    IF kind = "transducer" THEN {self.stream} ELSE held \ {Null}

NoneInside == \A t \in Threads : inflight[t] = Idle
Overlaps(t, s) == \E u \in Threads \ {t} : inflight[u].m # "none" /\ inflight[u].s = s

ThreadNewTransducer ==
    /\ NoneInside
    /\ \E recOk \in BOOLEAN, streamOk \in BOOLEAN :
          OnlineTransducerRecognizer_new(recOk, streamOk)

ThreadNewZipFormer ==
    /\ NoneInside
    /\ \E recOk \in BOOLEAN, streamOk \in BOOLEAN : ZipFormerOnline_new(recOk, streamOk)

ThreadCreateStream ==
    /\ NoneInside
    /\ ZipFormerOnline_create_stream(TRUE)

ThreadDropTransducer ==
    /\ NoneInside
    /\ OnlineTransducerRecognizer_drop

ThreadDropZipFormer ==
    /\ NoneInside
    /\ ZipFormerOnline_drop

\* A thread enters a &self method on stream s; any thread already inside a call
\* on s now shares the stream with it.
ThreadEnterShared(t, m, s) ==
    /\ Running /\ kind \in {"transducer", "zipformer"}
    /\ inflight[t] = Idle
    /\ \A u \in Threads : inflight[u].m \notin ExclusiveMethods
    /\ inflight' =
          [u \in Threads |->
              IF u = t THEN [m |-> m, s |-> s, n |-> 0, raced |-> Overlaps(t, s)]
              ELSE IF inflight[u].m # "none" /\ inflight[u].s = s
                   THEN [inflight[u] EXCEPT !.raced = TRUE]
                   ELSE inflight[u]]
    /\ UNCHANGED <<engine, kind, owner, self, held, op, ret, pc, plan, fed, config, desc, samples>>

\* A thread enters a &mut self method: it is alone.
ThreadEnterExclusive(t, m, s, n) ==
    /\ Running /\ kind \in {"transducer", "zipformer"}
    /\ NoneInside
    /\ m = "accept_waveform" => Fits(engine, s, n)
    /\ inflight' = [inflight EXCEPT ![t] = [m |-> m, s |-> s, n |-> n, raced |-> FALSE]]
    /\ UNCHANGED <<engine, kind, owner, self, held, op, ret, pc, plan, fed, config, desc, samples>>

\* The engine calls of method c.m on stream c.s and what the method returns.
MethodCalls(e, r, c, resOk, ep) ==
    CASE c.m = "is_ready" ->
            LET e1 == SherpaOnnxIsOnlineStreamReady(e, r, c.s)
            IN [eng |-> e1, ret |-> Ret("bool", e1.ret)]
      [] c.m = "get_result" ->
            LET g == GetResultCalls(e, r, c.s, resOk)
            IN [eng |-> g.eng, ret |-> Ret("String", g.text)]
      [] c.m = "is_endpoint" ->
            LET e1 == SherpaOnnxOnlineStreamIsEndpoint(e, r, c.s, ep)
            IN [eng |-> e1, ret |-> Ret("bool", e1.ret)]
      [] c.m = "accept_waveform" ->
            [eng |-> SherpaOnnxOnlineStreamAcceptWaveform(e, c.s, c.n), ret |-> Unit]
      [] c.m = "decode" ->
            IF kind = "transducer"
            THEN [eng |-> SherpaOnnxDecodeOnlineStream(e, r, c.s), ret |-> Unit]
            ELSE LET g == ZipFormerDecodeCalls(e, r, c.s, resOk)
                 IN [eng |-> g.eng, ret |-> Ret("String", g.text)]

TypeName == IF kind = "transducer" THEN "OnlineTransducerRecognizer" ELSE "ZipFormerOnline"

\* A thread leaves its method.  Engine calls that ran while another thread was
\* inside a call on the same stream have no defined outcome.
ThreadLeave(t) ==
    /\ inflight[t] # Idle
    /\ \E resOk \in BOOLEAN, ep \in BOOLEAN :
          LET c == MethodCalls(Begin(engine), self.recognizer, inflight[t], resOk, ep)
          IN IF inflight[t].raced
             THEN /\ engine' = Fault(Begin(engine), "concurrent_call")
                  /\ ret' = Returned(engine', Ret("undefined", Null))
             ELSE /\ engine' = c.eng
                  /\ ret' = Returned(c.eng, c.ret)
    /\ op' = Op(TypeName \o "::" \o inflight[t].m, inflight[t].s)
    /\ inflight' = [inflight EXCEPT ![t] = Idle]
    /\ UNCHANGED <<kind, owner, self, held, pc, plan, fed, config, desc, samples>>

ThreadNext ==
    \/ ThreadNewTransducer
    \/ ThreadNewZipFormer
    \/ ThreadCreateStream
    \/ ThreadDropTransducer
    \/ ThreadDropZipFormer
    \/ \E t \in Threads, m \in SharedMethods, s \in ThreadStreams : ThreadEnterShared(t, m, s)
    \/ \E t \in Threads, m \in ExclusiveMethods, s \in ThreadStreams, n \in SampleLens :
          ThreadEnterExclusive(t, m, s, IF m = "accept_waveform" THEN n ELSE 0)
    \/ \E t \in Threads : ThreadLeave(t)

ThreadSpec == Init /\ [][ThreadNext]_vars

\* ------------------------------------------- sample buffers of any length
\* The sample-taking methods given buffers whose length may exceed i32::MAX:
\* lengths hi * 2^31 + lo with few samples beyond the multiple of 2^31.
WideLens == {Usize(hi, lo) : hi \in 0..MaxHi, lo \in SampleLens}

CountTransducerAccept ==
    \E len \in WideLens :
       /\ Running /\ kind = "transducer"
       /\ Fits(engine, self.stream, len.lo)
       /\ LET c == TransducerAcceptCalls(Begin(engine), self.stream, len)
          IN engine' = c.eng
             /\ ret' = Returned(c.eng, IF c.panic THEN Ret("panic", Null) ELSE Unit)
       /\ op' = Op("OnlineTransducerRecognizer::accept_waveform", self.stream)
       /\ samples' = len
       /\ UNCHANGED <<kind, owner, self, held, pc, plan, fed, config, desc, inflight>>

CountZipFormerAccept ==
    \E stream \in held, len \in WideLens :
       /\ Running /\ kind = "zipformer"
       /\ Fits(engine, stream, len.lo)
       /\ engine' = SherpaOnnxOnlineStreamAcceptWaveform(Begin(engine), stream, AsI32(len))
       /\ ret' = Returned(engine', Unit)
       /\ op' = Op("ZipFormerOnline::accept_waveform", stream)
       /\ samples' = len
       /\ UNCHANGED <<kind, owner, self, held, pc, plan, fed, config, desc, inflight>>

CountTranscribe ==
    \E len \in WideLens, streamOk \in BOOLEAN, resOk \in BOOLEAN :
       /\ Running /\ kind = "paraformer"
       /\ streamOk => FreeIds(engine) # {}
       /\ LET c == TranscribeCalls(Begin(engine), self.recognizer, len, streamOk, resOk)
          IN engine' = c.eng /\ ret' = Returned(c.eng, c.result)
       /\ op' = Op("ParaformerRecognizer::transcribe", Null)
       /\ samples' = len
       /\ UNCHANGED <<kind, owner, self, held, pc, plan, fed, config, desc, inflight>>

CountNext ==
    \/ \E recOk \in BOOLEAN : ParaformerRecognizer_new(recOk)
    \/ \E recOk \in BOOLEAN, streamOk \in BOOLEAN :
          OnlineTransducerRecognizer_new(recOk, streamOk)
    \/ \E recOk \in BOOLEAN, streamOk \in BOOLEAN : ZipFormerOnline_new(recOk, streamOk)
    \/ \E streamOk \in BOOLEAN : ZipFormerOnline_create_stream(streamOk)
    \/ CountTransducerAccept
    \/ CountZipFormerAccept
    \/ CountTranscribe
    \/ OnlineTransducerRecognizer_input_finished
    \/ ParaformerRecognizer_drop
    \/ OnlineTransducerRecognizer_drop
    \/ ZipFormerOnline_drop

CountSpec == Init /\ [][CountNext]_vars

\* ---------------------------------------------------------------- claims
\* The names of the engine functions a call record lists, in order.
Fns(c) == [i \in 1..Len(c) |-> c[i].fn]
LiveStreams(e) == {s \in StreamIds : e.streams[s].st = "live"}
NewOps == {"ParaformerRecognizer::new", "OnlineTransducerRecognizer::new",
           "ZipFormerOnline::new"}
NewErrors == {"Err", "ConfigError"}

\* The state a dropped OnlineTransducerRecognizer leaves: its drop called
\* destroy_stream on its stream and then destroy_recognizer on its recognizer,
\* each exactly once over the whole run, without fault, and both are released.
C1_DroppedState ==
    (kind = "transducer" /\ owner = "dropped") =>
        /\ Fns(engine.calls) = <<"destroy_stream", "destroy_recognizer">>
        /\ engine.calls[1].h = self.stream
        /\ engine.calls[2].h = self.recognizer
        /\ engine.streams[self.stream].destroys = 1
        /\ engine.nDestroyRec = 1
        /\ engine.streams[self.stream].st = "destroyed"
        /\ engine.rec = "destroyed"
        /\ engine.faults = {}
\* C1: after any sequence of operations on an OnlineTransducerRecognizer followed
\* by drop, destroy_stream was called exactly once and then destroy_recognizer
\* exactly once, in that order, and the engine is never called again.
C1_TransducerDropOrder ==
    /\ []C1_DroppedState
    /\ [][(kind = "transducer" /\ owner = "dropped") => engine' = engine]_vars
C1_Witness ==
    /\ kind = "transducer" /\ owner = "dropped"
    /\ op.name = "OnlineTransducerRecognizer::drop"
    /\ engine.rec = "destroyed"
    /\ engine.streams[self.stream].st = "destroyed"

\* C2 (as claimed): a ZipFormerOnline's recognizer is never destroyed while a
\* stream its create_stream handed out is still live.
C2_NoLiveStreamAtRecognizerDestroy ==
    kind = "zipformer" =>
        ~(engine.rec = "destroyed" /\ \E s \in held \cap StreamIds : StreamLive(engine, s))

\* A streaming constructor whose create_recognizer returned a recognizer and
\* whose create_stream returned null.
C3_Case ==
    /\ op.name \in {"OnlineTransducerRecognizer::new", "ZipFormerOnline::new"}
    /\ Len(engine.calls) >= 2
    /\ engine.calls[1].r # Null
    /\ engine.calls[2].fn = "create_stream" /\ engine.calls[2].r = Null
\* C3: when OnlineTransducerRecognizer::new or ZipFormerOnline::new gets a
\* recognizer but a null stream, it returns an error, has called
\* destroy_recognizer exactly once on that recognizer, and leaves no handle live.
C3_NullStreamDestroysRecognizer ==
    C3_Case =>
        /\ ret.tag \in NewErrors
        /\ owner = "failed"
        /\ Fns(engine.calls) = <<"create_recognizer", "create_stream", "destroy_recognizer">>
        /\ engine.calls[3].h = engine.calls[1].r
        /\ engine.nDestroyRec = 1
        /\ engine.rec = "destroyed"
        /\ LiveStreams(engine) = {}
        /\ self = NoSelf
C3_Witness == C3_Case /\ kind = "transducer" /\ engine.nCreateRec = 1

\* A constructor whose create_recognizer returned null.
C4_Case ==
    /\ op.name \in NewOps
    /\ Len(engine.calls) >= 1
    /\ engine.calls[1].r = Null
\* C4: when create_recognizer returns null in any of the three constructors, new
\* returns an error, create_stream is never called and nothing is destroyed.
C4_NullRecognizerStopsNew ==
    C4_Case =>
        /\ ret.tag \in NewErrors
        /\ owner = "failed"
        /\ Len(engine.calls) = 1
        /\ engine.calls[1].fn \in {"create_recognizer", "create_offline_recognizer"}
        /\ \A s \in StreamIds : engine.streams[s].st = "none"
        /\ engine.nDestroyRec = 0
        /\ engine.rec = "none"
C4_Witness == C4_Case /\ kind = "zipformer" /\ owner = "failed"

\* C5: for all three types destroy_recognizer is never called more often than a
\* recognizer was created, and once the owner is gone (dropped, or never built
\* because new failed) it has been called exactly once per created recognizer.
C5_DestroyRecognizerOnce ==
    /\ engine.nDestroyRec <= engine.nCreateRec
    /\ owner \in {"dropped", "failed"} =>
          /\ engine.nDestroyRec = engine.nCreateRec
          /\ engine.rec \in {"none", "destroyed"}
    /\ engine.nDestroyRec = 1 => engine.rec = "destroyed"
C5_Witness ==
    /\ kind = "zipformer" /\ owner = "dropped"
    /\ engine.nCreateRec = 1 /\ engine.nDestroyRec = 1
    /\ \E s \in held \cap StreamIds : engine.streams[s].destroys = 1

C6_Case == op.name = "OnlineTransducerRecognizer::input_finished"
\* C6: OnlineTransducerRecognizer::input_finished calls the engine's
\* input_finished once, first, then only is_ready and decode, each decode right
\* after an is_ready that returned true; it returns on an is_ready that returned
\* false, and the stream then has nothing left to decode.
C6_TransducerInputFinishedDrains ==
    C6_Case =>
        LET c == engine.calls
            n == Len(c)
        IN /\ n >= 2
           /\ c[1].fn = "input_finished"
           /\ \A i \in 2..n :
                 /\ c[i].fn \in {"is_ready", "decode"}
                 /\ c[i].fn = "decode" =>
                       c[i - 1].fn = "is_ready" /\ c[i - 1].r = TRUE
           /\ c[n].fn = "is_ready" /\ c[n].r = FALSE
           /\ \A i \in 1..n : c[i].h = self.stream
           /\ engine.faults = {}
           /\ engine.streams[self.stream].ready = 0
           /\ engine.streams[self.stream].buf = 0
           /\ engine.streams[self.stream].finished
C6_Witness == C6_Case /\ Len(engine.calls) >= 6

\* C7 (as claimed): when ZipFormerOnline::input_finished returns on a live
\* stream, the engine has nothing left to decode on it.
C7_ZipFormerInputFinishedDrains ==
    (op.name = "ZipFormerOnline::input_finished" /\ StreamLive(engine, op.s)) =>
        engine.streams[op.s].ready = 0

\* A result extraction in which the engine's get_result returned null.
C8_Case ==
    /\ op.name \in {"OnlineTransducerRecognizer::get_result",
                    "ZipFormerOnline::get_result", "ZipFormerOnline::decode"}
    /\ ~engine.aborted
    /\ \E i \in 1..Len(engine.calls) :
          engine.calls[i].fn = "get_result" /\ engine.calls[i].r = Null
\* C8: when the engine's get_result returns a null pointer inside get_result
\* (either type) or ZipFormerOnline::decode, the operation returns the empty
\* string, calls no destroy_result, and the session stays usable.
C8_NullResultIsEmptyString ==
    C8_Case =>
        /\ ret = Ret("String", EmptyString)
        /\ \A i \in 1..Len(engine.calls) : engine.calls[i].fn # "destroy_result"
        /\ engine.calls[Len(engine.calls)].fn = "get_result"
        /\ engine.results = 0
        /\ Running
C8_Witness ==
    /\ C8_Case
    /\ op.name = "ZipFormerOnline::decode"
    /\ StreamLive(engine, op.s)
    /\ engine.streams[op.s].decoded > 0

TranscribeSequence ==
    <<"create_offline_stream", "accept_waveform_offline", "decode_offline",
      "get_offline_result", "destroy_offline_result", "destroy_offline_stream">>
C9_Case == op.name = "ParaformerRecognizer::transcribe"
\* C9 (as claimed): every transcribe performs create_stream, accept_waveform,
\* decode_offline, get_result, destroy_result, destroy_stream, once each and in
\* this order, and leaves no offline stream live and the recognizer live.
C9_TranscribeCallSequence ==
    C9_Case =>
        /\ Fns(engine.calls) = TranscribeSequence
        /\ LiveStreams(engine) = {}
        /\ engine.rec = "live"

\* A transcribe whose create_stream returned null.
C10_Case ==
    /\ C9_Case
    /\ engine.calls[1].fn = "create_offline_stream"
    /\ engine.calls[1].r = Null
\* C10 (as claimed): when create_stream returns null inside transcribe, the
\* caller gets ConfigError and no further engine call is made with the null
\* stream.
C10_NullStreamIsConfigError ==
    C10_Case =>
        /\ ret.tag = "ConfigError"
        /\ Len(engine.calls) = 1

DecodeOps == {"OnlineTransducerRecognizer::decode", "ZipFormerOnline::decode",
              "ZipFormerOnline::decode_stream"}
\* C11 (as claimed): no decode, decode_stream call reaches the engine's decode on
\* a stream the engine reports as not ready.
C11_NoDecodeOnUnreadyStream ==
    op.name \in DecodeOps => "decode_not_ready" \notin engine.faults

\* C12 (as claimed): no ZipFormerOnline operation hands the engine a stream that
\* destroy_stream has already destroyed.
C12_NoUseAfterDestroyStream ==
    (kind = "zipformer" /\ op.s \in StreamIds) => "dead_handle" \notin engine.faults

AfterFinishedOps ==
    {"OnlineTransducerRecognizer::accept_waveform", "OnlineTransducerRecognizer::decode",
     "OnlineTransducerRecognizer::reset", "ZipFormerOnline::accept_waveform",
     "ZipFormerOnline::decode", "ZipFormerOnline::decode_stream", "ZipFormerOnline::reset"}
\* C13 (as claimed): an accept_waveform, decode or reset on a stream whose input
\* was finished makes no engine call.
C13_FinishedIsTerminal ==
    (op.name \in AfterFinishedOps /\ StreamLive(engine, op.s)
       /\ engine.streams[op.s].finished) =>
        Len(engine.calls) = 0

ResetOps == {"OnlineTransducerRecognizer::reset", "ZipFormerOnline::reset"}
\* The state a reset of a live stream leaves: one engine reset on that stream and
\* no other call, no fault, and an empty transcript.
C16_ResetState ==
    (op.name \in ResetOps /\ StreamLive(engine, op.s)) =>
        /\ Fns(engine.calls) = <<"reset">>
        /\ engine.calls[1].h = op.s
        /\ engine.faults = {}
        /\ engine.streams[op.s].decoded = 0
        /\ ResultText(engine, op.s) = EmptyString
C20_CreateStreamNeverNull ==
    kind = "zipformer" => Null \notin held

\* C14: once input_finished has signalled end of input, the loop
\* `while is_ready { decode }` reaches its exit, and at the exit the stream is not
\* ready: the loop ran as many decodes as units were pending, no more.
C14_DrainLoopTerminates ==
    /\ [](pc = "done" /\ ~engine.aborted =>
            /\ StreamLive(engine, self.stream)
            /\ engine.streams[self.stream].ready = 0
            /\ Fns(engine.calls) = <<"is_ready">>
            /\ engine.ret = FALSE)
    /\ (pc = "test" ~> pc = "done")
C14_Witness ==
    /\ pc = "done"
    /\ ~engine.aborted
    /\ engine.streams[self.stream].finished
    /\ engine.streams[self.stream].decoded > 0

C15_Case ==
    /\ pc = "result"
    /\ engine.calls[1].r # Null
\* C15: when the sub-chunks of a split have all been fed, each followed by the
\* drain, and input_finished was called, get_result (given a result by the
\* engine) returns the transcript that one accept_waveform call with all the
\* samples gives.
C15_ChunkingIndependent ==
    C15_Case => ret = Ret("String", OneChunkTranscript(engine.fragile, fed))
C15_Witness ==
    /\ C15_Case
    /\ fed = MaxSamples
    /\ ret.val # EmptyString

\* The endpoint options as OnlineTransducerConfig::default() has them;
\* ZipFormerOnlineConfig has no such fields.
EndpointOptionsDefault ==
    \/ kind = "zipformer"
    \/ /\ kind = "transducer"
       /\ config.enable_endpoint = OnlineTransducerConfig_default.enable_endpoint
       /\ config.rule1_min_trailing_silence =
             OnlineTransducerConfig_default.rule1_min_trailing_silence
       /\ config.rule2_min_trailing_silence =
             OnlineTransducerConfig_default.rule2_min_trailing_silence
       /\ config.rule3_min_utterance_length =
             OnlineTransducerConfig_default.rule3_min_utterance_length
       /\ config.max_active_paths = OnlineTransducerConfig_default.max_active_paths
\* C17 (as claimed): a streaming recognizer built with the endpoint options at
\* their defaults hands the engine a descriptor with endpoint detection on, rule
\* thresholds 2.4 / 1.2 / 20.0 and max_active_paths 4.
C17_StreamingEndpointDefaults ==
    (kind \in {"transducer", "zipformer"} /\ EndpointOptionsDefault) =>
        /\ desc.enable_endpoint = I32(1)
        /\ desc.rule1_min_trailing_silence = F32(24)
        /\ desc.rule2_min_trailing_silence = F32(12)
        /\ desc.rule3_min_utterance_length = F32(200)
        /\ desc.max_active_paths = I32(4)

OfflineOtherFamilies ==
    {"dolphin", "nemo_ctc", "tdnn", "fire_red_asr", "transducer", "whisper",
     "sense_voice", "moonshine"}
OnlineOtherFamilies == {"paraformer", "nemo_ctc", "zipformer2_ctc"}
\* C18: in the descriptor a constructor hands to the engine, every model family
\* other than the selected one has all its fields null or zero, and the selected
\* family's path fields point to the configuration's paths.
C18_UnusedFamiliesAbsent ==
    /\ kind = "paraformer" =>
          /\ \A fam \in OfflineOtherFamilies : AllAbsent(desc.model_config[fam])
          /\ IsAbsent(desc.model_config.telespeech_ctc)
          /\ desc.model_config.paraformer = [model |-> Ptr(config.model)]
    /\ kind \in {"transducer", "zipformer"} =>
          /\ \A fam \in OnlineOtherFamilies : AllAbsent(desc.model_config[fam])
          /\ desc.model_config.transducer =
                [encoder |-> Ptr(config.encoder), decoder |-> Ptr(config.decoder),
                 joiner |-> Ptr(config.joiner)]
C18_Witness ==
    /\ kind = "zipformer"
    /\ op.name = "ZipFormerOnline::new"
    /\ owner = "live"
    /\ desc.model_config.transducer.encoder = Ptr("m.onnx")
    /\ desc.model_config.paraformer.encoder = NullPtr

\* C19 (as claimed): at no time are two threads inside engine calls on the same
\* stream, the &self queries is_ready, get_result and is_endpoint included.
C19_OneCallPerStreamAtATime ==
    \A t \in Threads, u \in Threads :
        (t # u /\ inflight[t].m # "none" /\ inflight[u].m # "none") =>
            inflight[t].s # inflight[u].s

\* C21 (as claimed): when a ZipFormerOnline that handed out no stream has been
\* dropped, no engine stream is live: the stream new created was destroyed before
\* the recognizer.
C21_ConstructionStreamDestroyed ==
    (kind = "zipformer" /\ owner = "dropped" /\ held = {}) => LiveStreams(engine) = {}

ResultOps ==
    {"OnlineTransducerRecognizer::get_result", "ZipFormerOnline::get_result",
     "ZipFormerOnline::decode", "ParaformerRecognizer::transcribe"}
GetResultFns == {"get_result", "get_offline_result"}
DestroyResultFns == {"destroy_result", "destroy_offline_result"}
\* An operation in which the engine handed out a non-null transient result.
C22_Case ==
    /\ op.name \in ResultOps
    /\ \E i \in 1..Len(engine.calls) :
          engine.calls[i].fn \in GetResultFns /\ engine.calls[i].r # Null
\* C22: between public calls no transient result is outstanding; a non-null
\* result the engine hands out is released by the very next engine call, once,
\* and the text the operation returns is the one the result held.
C22_TransientResultsReleased ==
    /\ engine.results = 0
    /\ C22_Case =>
          /\ \A i \in 1..Len(engine.calls) :
                (engine.calls[i].fn \in GetResultFns /\ engine.calls[i].r # Null) =>
                    /\ i < Len(engine.calls)
                    /\ engine.calls[i + 1].fn \in DestroyResultFns
                    /\ engine.calls[i + 1].h = engine.calls[i].r
          /\ Cardinality({i \in 1..Len(engine.calls) :
                             engine.calls[i].fn \in DestroyResultFns}) = 1
          /\ op.name # "ParaformerRecognizer::transcribe" =>
                ret = Ret("String", ResultText(engine, op.s))
C22_Witness ==
    /\ C22_Case
    /\ op.name = "ZipFormerOnline::decode"
    /\ ~engine.aborted
    /\ ret.val # EmptyString

SampleOps ==
    {"OnlineTransducerRecognizer::accept_waveform", "ZipFormerOnline::accept_waveform",
     "ParaformerRecognizer::transcribe"}
AcceptFns == {"accept_waveform", "accept_waveform_offline"}
\* C23 (as claimed): the count accept_waveform and transcribe hand to the engine
\* equals the length of the buffer they were given, and no call panics on the
\* conversion.
C23_CountEqualsLength ==
    op.name \in SampleOps =>
        /\ ret.tag # "panic"
        /\ \A i \in 1..Len(engine.calls) :
              engine.calls[i].fn \in AcceptFns =>
                  (samples.hi = 0 /\ engine.calls[i].n = samples.lo)
====
